---------------------------- MODULE Spec2Model ----------------------------
(***************************************************************************)
(* A model of quiche's QUIC frame codec, src/frame.rs: Frame::from_bytes,  *)
(* Frame::to_bytes, Frame::wire_len, parse_ack_frame, parse_stream_frame.  *)
(*                                                                         *)
(* Bytes are naturals 0..255 and a buffer is a sequence of bytes.  A u64   *)
(* is its eight big-endian bytes (TLC's integers are 32 bits wide, the     *)
(* test vectors of frame.rs are not).  usize is taken to be 64 bits wide,  *)
(* so `as usize` and `as u64` change nothing.  Integer fields of a frame   *)
(* are below 2^62, the largest value a variable-length integer carries.    *)
(*                                                                         *)
(* The cursor, octets::Bytes, is not part of frame.rs; its operations are  *)
(* modelled from their description: bounds-checked reads and writes that   *)
(* fail with BufferTooShort and leave the cursor where it was.             *)
(***************************************************************************)
EXTENDS Naturals, Sequences, FiniteSets

VARIABLES b, pc, sent, ret, got, wire, ack

vars == <<b, pc, sent, ret, got, wire, ack>>

(***************************************************************************)
(* Integers                                                                *)
(***************************************************************************)

\* n (below 2^31) as a u64
U(n) ==
    <<0, 0, 0, 0, (n \div 16777216) % 256, (n \div 65536) % 256,
      (n \div 256) % 256, n % 256>>

Zeros(n) == [i \in 1..n |-> 0]

\* v > n, for a u64 v and a natural n below 2^24
u64_gt(v, n) ==
    IF \E i \in 1..5 : v[i] # 0 THEN TRUE
    ELSE v[6] * 65536 + v[7] * 256 + v[8] > n

\* v as usize, for a u64 v below 2^24
as_usize(v) == v[6] * 65536 + v[7] * 256 + v[8]

\* v as u8
as_u8(v) == v[8]

RECURSIVE BitAnd(_, _)
BitAnd(x, y) ==
    IF x = 0 \/ y = 0 THEN 0
    ELSE (x % 2) * (y % 2) + 2 * BitAnd(x \div 2, y \div 2)

RECURSIVE BitOr(_, _)
BitOr(x, y) ==
    IF x = 0 THEN y
    ELSE IF y = 0 THEN x
    ELSE (IF x % 2 = 1 \/ y % 2 = 1 THEN 1 ELSE 0)
         + 2 * BitOr(x \div 2, y \div 2)

(***************************************************************************)
(* octets::Bytes, the cursor.  b.ok = FALSE is a call that returned        *)
(* Err(BufferTooShort); every operation applied to a failed cursor leaves  *)
(* it as it is, which is `?` returning from the caller at once.            *)
(***************************************************************************)

\* Op applied to the cursor b0, which is worked out once
On(b0, Op(_)) == CHOOSE r \in {Op(c) : c \in {b0}} : TRUE

Bytes_new(buf) == [buf |-> buf, off |-> 0, ok |-> TRUE, v |-> 0]

cap(c) == Len(c.buf) - c.off

as_ref(c) == SubSeq(c.buf, c.off + 1, Len(c.buf))

BufferTooShort(c) == [c EXCEPT !.ok = FALSE]

\* the bytes written at the cursor, which then moves past them
Write(c, bytes) ==
    [c EXCEPT
        !.buf = SubSeq(c.buf, 1, c.off) \o bytes
                \o SubSeq(c.buf, c.off + Len(bytes) + 1, Len(c.buf)),
        !.off = c.off + Len(bytes)]

\* bytes of a varint whose first byte is `first`: 1, 2, 4 or 8
varint_parse_len(first) ==
    CASE first \div 64 = 0 -> 1
      [] first \div 64 = 1 -> 2
      [] first \div 64 = 2 -> 4
      [] OTHER -> 8

\* bytes a value takes as a varint
varint_len(v) ==
    IF (\A i \in 1..7 : v[i] = 0) /\ v[8] < 64 THEN 1
    ELSE IF (\A i \in 1..6 : v[i] = 0) /\ v[7] < 64 THEN 2
    ELSE IF (\A i \in 1..4 : v[i] = 0) /\ v[5] < 64 THEN 4
    ELSE 8

get_u8(b0) ==
    LET get(c) ==
          IF ~c.ok THEN c
          ELSE IF cap(c) < 1 THEN BufferTooShort(c)
          ELSE [c EXCEPT !.off = c.off + 1, !.v = c.buf[c.off + 1]]
    IN  On(b0, get)

get_u16(b0) ==
    LET get(c) ==
          IF ~c.ok THEN c
          ELSE IF cap(c) < 2 THEN BufferTooShort(c)
          ELSE [c EXCEPT !.off = c.off + 2,
                         !.v = c.buf[c.off + 1] * 256 + c.buf[c.off + 2]]
    IN  On(b0, get)

get_varint(b0) ==
    LET get(c) ==
          IF ~c.ok THEN c
          ELSE IF cap(c) < 1 THEN BufferTooShort(c)
          ELSE LET first == c.buf[c.off + 1]
                   len == varint_parse_len(first)
               IN  IF cap(c) < len THEN BufferTooShort(c)
                   ELSE [c EXCEPT
                           !.off = c.off + len,
                           !.v = Zeros(8 - len) \o <<first % 64>>
                                 \o SubSeq(c.buf, c.off + 2, c.off + len)]
    IN  On(b0, get)

\* len is a u64
get_bytes(b0, len) ==
    LET get(c) ==
          IF ~c.ok THEN c
          ELSE IF u64_gt(len, cap(c)) THEN BufferTooShort(c)
          ELSE [c EXCEPT
                  !.off = c.off + as_usize(len),
                  !.v = SubSeq(c.buf, c.off + 1, c.off + as_usize(len))]
    IN  On(b0, get)

get_bytes_with_u8_length(b0) ==
    LET get(len) == IF ~len.ok THEN len ELSE get_bytes(len, U(len.v))
    IN  On(get_u8(b0), get)

get_bytes_with_varint_length(b0) ==
    LET get(len) == IF ~len.ok THEN len ELSE get_bytes(len, len.v)
    IN  On(get_varint(b0), get)

put_u8(b0, n) ==
    LET put(c) ==
          IF ~c.ok THEN c
          ELSE IF cap(c) < 1 THEN BufferTooShort(c)
          ELSE Write(c, <<n>>)
    IN  On(b0, put)

put_u16(b0, n) ==
    LET put(c) ==
          IF ~c.ok THEN c
          ELSE IF cap(c) < 2 THEN BufferTooShort(c)
          ELSE Write(c, <<n \div 256, n % 256>>)
    IN  On(b0, put)

put_varint(b0, v) ==
    LET put(c) ==
          IF ~c.ok THEN c
          ELSE LET len == varint_len(v)
                   tag == CASE len = 1 -> 0 [] len = 2 -> 64
                            [] len = 4 -> 128 [] OTHER -> 192
               IN  IF cap(c) < len THEN BufferTooShort(c)
                   ELSE Write(c, <<v[9 - len] + tag>>
                                 \o SubSeq(v, 10 - len, 8))
    IN  On(b0, put)

put_bytes(b0, bytes) ==
    LET put(c) ==
          IF ~c.ok THEN c
          ELSE IF cap(c) < Len(bytes) THEN BufferTooShort(c)
          ELSE Write(c, bytes)
    IN  On(b0, put)

(***************************************************************************)
(* enum Frame.  Byte-sequence fields are sequences of bytes; the data of   *)
(* Crypto and Stream is the view octets::Bytes, here the bytes it holds.   *)
(***************************************************************************)

Padding == [tag |-> "Padding"]

ConnectionClose(error_code, frame_type, reason) ==
    [tag |-> "ConnectionClose", error_code |-> error_code,
     frame_type |-> frame_type, reason |-> reason]

ApplicationClose(error_code, reason) ==
    [tag |-> "ApplicationClose", error_code |-> error_code, reason |-> reason]

Ping == [tag |-> "Ping"]

NewConnectionId(seq_num, conn_id, reset_token) ==
    [tag |-> "NewConnectionId", seq_num |-> seq_num, conn_id |-> conn_id,
     reset_token |-> reset_token]

ACK(largest_ack, ack_delay) ==
    [tag |-> "ACK", largest_ack |-> largest_ack, ack_delay |-> ack_delay]

Crypto(offset, data) == [tag |-> "Crypto", offset |-> offset, data |-> data]

Stream(stream_id, offset, data, fin) ==
    [tag |-> "Stream", stream_id |-> stream_id, offset |-> offset,
     data |-> data, fin |-> fin]

\* no frame: what a failed call returns in place of one
NoFrame == [tag |-> "none"]

\* Result<Frame>: Ok(frame) or Err(err), and the cursor as the call left it
OkFrame(frame, c) == [ok |-> TRUE, err |-> "", frame |-> frame, c |-> c]

ErrFrame(err, c) == [ok |-> FALSE, err |-> err, frame |-> NoFrame, c |-> c]

\* the result of a field read chain c that built `frame`
Built(frame, c) ==
    IF c.ok THEN OkFrame(frame, c) ELSE ErrFrame("BufferTooShort", c)

(***************************************************************************)
(* parse_ack_frame                                                         *)
(***************************************************************************)

\* an iteration that reads the gap only
ack_block_gap_only(c) == get_varint(c)

\* an iteration that drops the errors of its reads with their values
ack_block_ignoring_errors(c) ==
    LET r == get_varint(get_varint(c)) IN IF r.ok THEN r ELSE c

\* one iteration of the block loop: a gap and an ack block, both dropped
ack_block(c) == get_varint(get_varint(c))

\* for _i in 0..block_count, from iteration i on
RECURSIVE ack_blocks(_, _, _)
ack_blocks(c, i, block_count) ==
    IF ~c.ok THEN c
    ELSE IF ~u64_gt(block_count, i) THEN c
    ELSE ack_blocks(ack_block(c), i + 1, block_count)

\* the four varints before the blocks: the values read and the cursor after
ack_header(c) ==
    LET largest_ack == get_varint(c)
        ack_delay == get_varint(largest_ack)
        block_count == get_varint(ack_delay)
        first_block == get_varint(block_count)
    IN  [largest_ack |-> largest_ack.v, ack_delay |-> ack_delay.v,
         block_count |-> block_count.v, c |-> first_block]

parse_ack_frame(ty, c) ==
    LET header == ack_header(c)
        blocks == ack_blocks(header.c, 0, header.block_count)
    IN  Built(ACK(header.largest_ack, header.ack_delay), blocks)

(***************************************************************************)
(* parse_stream_frame                                                      *)
(***************************************************************************)

\* parse_stream_frame testing the offset flag where the length flag is meant
parse_stream_frame_len_flag4(ty, c) ==
    LET first == as_u8(ty)
        stream_id == get_varint(c)
        offset == IF BitAnd(first, 4) # 0
                  THEN get_varint(stream_id)
                  ELSE [stream_id EXCEPT !.v = U(0)]
        len == IF BitAnd(first, 4) # 0
               THEN get_varint(offset)
               ELSE [offset EXCEPT !.v = U(cap(offset))]
        fin == BitAnd(first, 1) # 0
        data == get_bytes(len, len.v)
    IN  Built(Stream(stream_id.v, offset.v, data.v, fin), data)

\* parse_stream_frame never reading an offset
parse_stream_frame_no_offset(ty, c) ==
    LET first == as_u8(ty)
        stream_id == get_varint(c)
        offset == [stream_id EXCEPT !.v = U(0)]
        len == IF BitAnd(first, 2) # 0
               THEN get_varint(offset)
               ELSE [offset EXCEPT !.v = U(cap(offset))]
        fin == BitAnd(first, 1) # 0
        data == get_bytes(len, len.v)
    IN  Built(Stream(stream_id.v, offset.v, data.v, fin), data)

parse_stream_frame(ty, c) ==
    LET first == as_u8(ty)
        stream_id == get_varint(c)
        offset == IF BitAnd(first, 4) # 0
                  THEN get_varint(stream_id)
                  ELSE [stream_id EXCEPT !.v = U(0)]
        len == IF BitAnd(first, 2) # 0
               THEN get_varint(offset)
               ELSE [offset EXCEPT !.v = U(cap(offset))]
        fin == BitAnd(first, 1) # 0
        data == get_bytes(len, len.v)
    IN  Built(Stream(stream_id.v, offset.v, data.v, fin), data)

(***************************************************************************)
(* Frame::from_bytes                                                       *)
(***************************************************************************)

\* from_bytes without the Crypto arm
from_bytes_no_crypto(c) ==
    LET frame_type == get_varint(c)
        ty == frame_type.v
    IN  IF ~frame_type.ok THEN ErrFrame("BufferTooShort", frame_type)
        ELSE IF ty = U(0) THEN OkFrame(Padding, frame_type)
        ELSE IF ty = U(2) THEN
            LET error_code == get_u16(frame_type)
                ftype == get_varint(error_code)
                reason == get_bytes_with_varint_length(ftype)
            IN  Built(ConnectionClose(error_code.v, ftype.v, reason.v), reason)
        ELSE IF ty = U(3) THEN
            LET error_code == get_u16(frame_type)
                reason == get_bytes_with_varint_length(error_code)
            IN  Built(ApplicationClose(error_code.v, reason.v), reason)
        ELSE IF ty = U(7) THEN OkFrame(Ping, frame_type)
        ELSE IF ty = U(11) THEN
            LET seq_num == get_varint(frame_type)
                conn_id == get_bytes_with_u8_length(seq_num)
                reset_token == get_bytes(conn_id, U(16))
            IN  Built(NewConnectionId(seq_num.v, conn_id.v, reset_token.v),
                      reset_token)
        ELSE IF ty = U(13) THEN parse_ack_frame(ty, frame_type)
        ELSE IF ty \in {U(16), U(17), U(18), U(19), U(20), U(21), U(22), U(23)}
            THEN parse_stream_frame(ty, frame_type)
        ELSE ErrFrame("UnknownFrame", frame_type)

from_bytes(c) ==
    LET frame_type == get_varint(c)
        ty == frame_type.v
    IN  IF ~frame_type.ok THEN ErrFrame("BufferTooShort", frame_type)
        ELSE IF ty = U(0) THEN OkFrame(Padding, frame_type)
        ELSE IF ty = U(2) THEN
            LET error_code == get_u16(frame_type)
                ftype == get_varint(error_code)
                reason == get_bytes_with_varint_length(ftype)
            IN  Built(ConnectionClose(error_code.v, ftype.v, reason.v), reason)
        ELSE IF ty = U(3) THEN
            LET error_code == get_u16(frame_type)
                reason == get_bytes_with_varint_length(error_code)
            IN  Built(ApplicationClose(error_code.v, reason.v), reason)
        ELSE IF ty = U(7) THEN OkFrame(Ping, frame_type)
        ELSE IF ty = U(11) THEN
            LET seq_num == get_varint(frame_type)
                conn_id == get_bytes_with_u8_length(seq_num)
                reset_token == get_bytes(conn_id, U(16))
            IN  Built(NewConnectionId(seq_num.v, conn_id.v, reset_token.v),
                      reset_token)
        ELSE IF ty = U(13) THEN parse_ack_frame(ty, frame_type)
        ELSE IF ty = U(24) THEN
            LET offset == get_varint(frame_type)
                data == get_bytes_with_varint_length(offset)
            IN  Built(Crypto(offset.v, data.v), data)
        ELSE IF ty \in {U(16), U(17), U(18), U(19), U(20), U(21), U(22), U(23)}
            THEN parse_stream_frame(ty, frame_type)
        ELSE ErrFrame("UnknownFrame", frame_type)

(***************************************************************************)
(* Frame::to_bytes                                                         *)
(***************************************************************************)

\* Result<usize>: Ok(n) or Err(BufferTooShort), and the cursor afterwards
Wrote(before, c) ==
    [ok |-> c.ok, n |-> IF c.ok THEN before - cap(c) ELSE 0, c |-> c]

\* the type byte of a Stream frame
stream_ty(fin) ==
    LET ty0 == BitOr(BitOr(16, 4), 2)
    IN  IF fin THEN BitOr(ty0, 1) ELSE ty0

\* the arms of to_bytes: the writes of one variant, in order
\* put_connection_close without the error code
put_connection_close_no_error_code(f, c) ==
    LET ty == put_varint(c, U(2))
        frame_type == put_varint(ty, f.frame_type)
        reason_len == put_varint(frame_type, U(Len(f.reason)))
    IN  put_bytes(reason_len, f.reason)

put_connection_close(f, c) ==
    LET ty == put_varint(c, U(2))
        error_code == put_u16(ty, f.error_code)
        frame_type == put_varint(error_code, f.frame_type)
        reason_len == put_varint(frame_type, U(Len(f.reason)))
    IN  put_bytes(reason_len, f.reason)

put_application_close(f, c) ==
    LET ty == put_varint(c, U(3))
        error_code == put_u16(ty, f.error_code)
        reason_len == put_varint(error_code, U(Len(f.reason)))
    IN  put_bytes(reason_len, f.reason)

\* conn_id.len() as u8 keeps the low eight bits of the length
put_new_connection_id(f, c) ==
    LET ty == put_varint(c, U(11))
        seq_num == put_varint(ty, f.seq_num)
        conn_id_len == put_u8(seq_num, Len(f.conn_id) % 256)
        conn_id == put_bytes(conn_id_len, f.conn_id)
    IN  put_bytes(conn_id, f.reset_token)

put_ack(f, c) ==
    LET ty == put_varint(c, U(13))
        largest_ack == put_varint(ty, f.largest_ack)
        ack_delay == put_varint(largest_ack, f.ack_delay)
        block_count == put_varint(ack_delay, U(0))
    IN  put_varint(block_count, U(0))

put_crypto(f, c) ==
    LET ty == put_varint(c, U(24))
        offset == put_varint(ty, f.offset)
        len == put_varint(offset, U(Len(f.data)))
    IN  put_bytes(len, f.data)

\* put_stream in the implicit-length form: no length flag, no length
put_stream_implicit(f, c) ==
    LET ty == put_varint(c, U(stream_ty(f.fin) - 2))
        stream_id == put_varint(ty, f.stream_id)
        offset == put_varint(stream_id, f.offset)
    IN  put_bytes(offset, f.data)

put_stream(f, c) ==
    LET ty == put_varint(c, U(stream_ty(f.fin)))
        stream_id == put_varint(ty, f.stream_id)
        offset == put_varint(stream_id, f.offset)
        len == put_varint(offset, U(Len(f.data)))
    IN  put_bytes(len, f.data)

to_bytes(f, c) ==
    LET before == cap(c)
        end == CASE f.tag = "Padding" -> put_varint(c, U(0))
                 [] f.tag = "ConnectionClose" -> put_connection_close(f, c)
                 [] f.tag = "ApplicationClose" -> put_application_close(f, c)
                 [] f.tag = "Ping" -> put_varint(c, U(7))
                 [] f.tag = "NewConnectionId" -> put_new_connection_id(f, c)
                 [] f.tag = "ACK" -> put_ack(f, c)
                 [] f.tag = "Crypto" -> put_crypto(f, c)
                 [] f.tag = "Stream" -> put_stream(f, c)
    IN  Wrote(before, end)

(***************************************************************************)
(* Frame::wire_len                                                         *)
(***************************************************************************)

\* wire_len taking the reset token to be its 16 bytes
wire_len_token16(f) ==
    CASE f.tag = "Padding" -> 1
      [] f.tag = "ConnectionClose" ->
           1 + 2 + varint_len(f.frame_type) + varint_len(U(Len(f.reason)))
           + Len(f.reason)
      [] f.tag = "ApplicationClose" ->
           1 + 2 + varint_len(U(Len(f.reason))) + Len(f.reason)
      [] f.tag = "Ping" -> 1
      [] f.tag = "NewConnectionId" ->
           1 + varint_len(f.seq_num) + 1 + Len(f.conn_id) + 16
      [] f.tag = "ACK" ->
           1 + varint_len(f.largest_ack) + varint_len(f.ack_delay) + 1 + 1
      [] f.tag = "Crypto" ->
           1 + varint_len(f.offset) + varint_len(U(Len(f.data))) + Len(f.data)
      [] f.tag = "Stream" ->
           1 + varint_len(f.stream_id) + varint_len(f.offset)
           + varint_len(U(Len(f.data))) + Len(f.data)

wire_len(f) ==
    CASE f.tag = "Padding" -> 1
      [] f.tag = "ConnectionClose" ->
           1 + 2 + varint_len(f.frame_type) + varint_len(U(Len(f.reason)))
           + Len(f.reason)
      [] f.tag = "ApplicationClose" ->
           1 + 2 + varint_len(U(Len(f.reason))) + Len(f.reason)
      [] f.tag = "Ping" -> 1
      [] f.tag = "NewConnectionId" ->
           1 + varint_len(f.seq_num) + 1 + Len(f.conn_id) + Len(f.reset_token)
      [] f.tag = "ACK" ->
           1 + varint_len(f.largest_ack) + varint_len(f.ack_delay) + 1 + 1
      [] f.tag = "Crypto" ->
           1 + varint_len(f.offset) + varint_len(U(Len(f.data))) + Len(f.data)
      [] f.tag = "Stream" ->
           1 + varint_len(f.stream_id) + varint_len(f.offset)
           + varint_len(U(Len(f.data))) + Len(f.data)

(***************************************************************************)
(* Building a packet and reading it back, as the tests of frame.rs do:     *)
(* frames are written back to back into d, a buffer of 42s, through one    *)
(* cursor; a new cursor over d then reads them one from_bytes at a time.   *)
(***************************************************************************)

\* the most frames written into one buffer
MaxFrames == 2

\* let mut d: [u8; 128] = [42; 128]
BufSize == 128

Fill(n) == [i \in 1..n |-> 42]

\* a buffer too small for most frames, one that ConnectionCloseVec fills
\* exactly, and the one of the tests
BufSizes == {3, 20, BufSize}

Seq12 == <<1, 2, 3, 4, 5, 6, 7, 8, 9, 10, 11, 12>>

Token(n) == [i \in 1..n |-> 66]

\* the frames of the tests
ConnectionCloseVec == ConnectionClose(48879, U(523423), Seq12)

ApplicationCloseVec == ApplicationClose(48879, Seq12)

NewConnectionIdVec ==
    NewConnectionId(U(123213), Seq12 \o <<13, 14, 15>>, Token(16))

\* largest_ack: 2163721632
AckVec == ACK(<<0, 0, 0, 0, 128, 247, 197, 160>>, U(874656534))

CryptoVec == Crypto(U(1230976), Seq12)

StreamVec == Stream(U(32), U(1230976), Seq12, TRUE)

\* 2^62 - 1
MaxVarint == <<63, 255, 255, 255, 255, 255, 255, 255>>

\* the frames written: those of the tests, and frames whose integers lie on
\* both sides of 2^6, 2^14 and 2^30 and whose byte fields are empty, short
\* and 64 bytes long; a reset_token of 0, 15, 16 and 17 bytes
Frames ==
    { Padding, Ping,
      ConnectionCloseVec,
      ConnectionClose(0, U(0), <<>>),
      ConnectionClose(1, U(64), <<9>>),
      ApplicationCloseVec,
      ApplicationClose(0, <<>>),
      NewConnectionIdVec,
      NewConnectionId(U(0), <<>>, Token(16)),
      NewConnectionId(U(0), <<>>, Token(15)),
      NewConnectionId(U(5), <<1, 2>>, Token(17)),
      NewConnectionId(U(64), <<7>>, <<>>),
      AckVec,
      ACK(U(0), U(0)),
      ACK(U(63), U(64)),
      ACK(U(16383), U(16384)),
      ACK(U(1073741823), U(1073741824)),
      ACK(MaxVarint, U(1)),
      CryptoVec,
      Crypto(U(0), <<>>),
      Crypto(U(64), Zeros(64)),
      StreamVec,
      Stream(U(0), U(0), <<>>, FALSE),
      Stream(U(64), U(0), <<7>>, FALSE),
      Stream(U(1), U(16384), <<0, 0>>, TRUE) }

NoRet == [op |-> "none"]

NoWire == [kind |-> "none"]

NoAck == [kind |-> "none"]

Init ==
    /\ \E n \in BufSizes : b = Bytes_new(Fill(n))
    /\ pc = "encode"
    /\ sent = <<>>
    /\ ret = NoRet
    /\ got = <<>>
    /\ wire = NoWire
    /\ ack = NoAck

\* frame.to_bytes(&mut b): on Ok the frame is in the packet; on Err the
\* buffer, partly written, is given up
ToBytes(f) ==
    /\ pc = "encode"
    /\ Len(sent) < MaxFrames
    /\ LET r == to_bytes(f, b)
       IN  /\ ret' = [op |-> "to_bytes", ok |-> r.ok, n |-> r.n, frame |-> f,
                      before |-> cap(b), start |-> b.off]
           /\ b' = r.c
           /\ sent' = IF r.ok THEN Append(sent, f) ELSE sent
           /\ pc' = IF r.ok THEN "encode" ELSE "discard"
    /\ UNCHANGED <<got, wire, ack>>

\* let mut b = octets::Bytes::new(&mut d): a cursor over the whole buffer
Rewind ==
    /\ pc = "encode"
    /\ sent # <<>>
    /\ wire' = [kind |-> "packet", written |-> b.off]
    /\ b' = Bytes_new(b.buf)
    /\ pc' = "decode"
    /\ UNCHANGED <<sent, ret, got, ack>>

\* the record of one from_bytes call made with the cursor at c: the result,
\* where the cursor was before and after, and the leading varint
Decoded(c) ==
    LET r == from_bytes(c)
        frame_type == get_varint(c)
    IN  [ok |-> r.ok, err |-> r.err, frame |-> r.frame, start |-> c.off,
         end |-> r.c.off,
         ty |-> [ok |-> frame_type.ok, v |-> frame_type.v,
                 end |-> frame_type.off]]

\* no from_bytes call so far returned an error
NoError(results) == \A i \in 1..Len(results) : results[i].ok

\* Frame::from_bytes(&mut b), once per frame written; an error ends the packet
FromBytes ==
    /\ pc = "decode"
    /\ Len(got) < Len(sent)
    /\ NoError(got)
    /\ got' = Append(got, Decoded(b))
    /\ b' = [from_bytes(b).c EXCEPT !.v = 0]
    /\ UNCHANGED <<pc, sent, ret, wire, ack>>

Next == (\E f \in Frames : ToBytes(f)) \/ Rewind \/ FromBytes

Spec == Init /\ [][Next]_vars

(***************************************************************************)
(* Properties of the packet built and read back                            *)
(***************************************************************************)

\* the last call was a to_bytes, and b is the cursor as that call left it
JustWrote == ret.op = "to_bytes" /\ pc \in {"encode", "discard"}

\* the bytes the last to_bytes wrote
Written == SubSeq(b.buf, ret.start + 1, b.off)

\* C1: whenever to_bytes succeeds, the count it returns, which is the number
\* of bytes the cursor advanced, equals wire_len of the frame.
C1_LengthConsistency ==
    (JustWrote /\ ret.ok) =>
        /\ ret.n = wire_len(ret.frame)
        /\ b.off - ret.start = wire_len(ret.frame)

\* a second frame written, with a reset token that is not 16 bytes long
C1_Witness ==
    /\ JustWrote /\ ret.ok /\ Len(sent) = 2
    /\ ret.frame = NewConnectionId(U(5), <<1, 2>>, Token(17))

\* C2: a single frame written with to_bytes into a large enough buffer and
\* read from the buffer's start with from_bytes comes back equal.
C2_RoundTrip ==
    (pc = "decode" /\ Len(sent) = 1 /\ Len(got) = 1) =>
        (got[1].ok /\ got[1].frame = sent[1])

\* a frame from_bytes can return: the reset token is 16 bytes long (and the
\* connection id below 256 bytes, as all those written here are)
Decodable(f) == f.tag = "NewConnectionId" => Len(f.reset_token) = 16

\* frames from_bytes can return are read back as C2 and C3 say
RoundTripDecodable ==
    (pc = "decode" /\ \A i \in 1..Len(sent) : Decodable(sent[i])) =>
        /\ \A i \in 1..Len(got) :
              /\ got[i].ok /\ got[i].frame = sent[i]
              /\ got[i].end - got[i].start = wire_len(sent[i])
        /\ Len(got) = Len(sent) => cap(b) = Len(b.buf) - wire.written

\* C3: the frames written back to back are returned in order by as many
\* from_bytes calls on one cursor, the i-th call advancing the cursor by
\* wire_len of the i-th frame; after the last call the cursor's remaining
\* capacity is the buffer's unused tail.
C3_FrameByFrame ==
    pc = "decode" =>
        /\ \A i \in 1..Len(got) :
              /\ got[i].ok /\ got[i].frame = sent[i]
              /\ got[i].end - got[i].start = wire_len(sent[i])
        /\ Len(got) = Len(sent) => cap(b) = Len(b.buf) - wire.written

\* C8: to_bytes fails exactly when the cursor's capacity is below wire_len
\* of the frame, and whether it fails or not the buffer keeps its length:
\* nothing is written at or beyond its end.
C8_EncodeCapacity ==
    JustWrote =>
        /\ ret.ok <=> ret.before >= wire_len(ret.frame)
        /\ Len(b.buf) = ret.start + ret.before
        /\ b.off <= Len(b.buf)

\* a to_bytes that failed after writing the first fields of the frame
C8_Witness ==
    /\ JustWrote /\ ~ret.ok /\ b.off > ret.start
    /\ ret.before < wire_len(ret.frame)

\* v < w, for u64s v and w
u64_lt(v, w) ==
    \E i \in 1..8 : v[i] < w[i] /\ \A j \in 1..(i - 1) : v[j] = w[j]

\* the size of a varint by the value it carries: 1, 2, 4 or 8 bytes for
\* values below 2^6, 2^14, 2^30 and 2^62
VarintSize(v) ==
    IF u64_lt(v, <<0, 0, 0, 0, 0, 0, 0, 64>>) THEN 1
    ELSE IF u64_lt(v, <<0, 0, 0, 0, 0, 0, 64, 0>>) THEN 2
    ELSE IF u64_lt(v, <<0, 0, 0, 0, 64, 0, 0, 0>>) THEN 4
    ELSE 8

\* the sizes of a frame's fields on the wire
FieldSizes(f) ==
    CASE f.tag \in {"Padding", "Ping"} -> 0
      [] f.tag = "ConnectionClose" ->
           2 + VarintSize(f.frame_type) + VarintSize(U(Len(f.reason)))
           + Len(f.reason)
      [] f.tag = "ApplicationClose" ->
           2 + VarintSize(U(Len(f.reason))) + Len(f.reason)
      [] f.tag = "NewConnectionId" ->
           VarintSize(f.seq_num) + 1 + Len(f.conn_id) + Len(f.reset_token)
      [] f.tag = "ACK" ->
           VarintSize(f.largest_ack) + VarintSize(f.ack_delay)
           + VarintSize(U(0)) + VarintSize(U(0))
      [] f.tag = "Crypto" ->
           VarintSize(f.offset) + VarintSize(U(Len(f.data))) + Len(f.data)
      [] f.tag = "Stream" ->
           VarintSize(f.stream_id) + VarintSize(f.offset)
           + VarintSize(U(Len(f.data))) + Len(f.data)

\* the sizes of the frames of the tests
VecSize(f) ==
    CASE f = ConnectionCloseVec -> 20
      [] f = ApplicationCloseVec -> 16
      [] f = NewConnectionIdVec -> 37
      [] f = AckVec -> 15
      [] f = CryptoVec -> 18
      [] f = StreamVec -> 19
      [] OTHER -> 1 + FieldSizes(f)

\* C9: a frame written by to_bytes takes one byte of type and the sizes of
\* its fields; Padding is the byte 0x00, Ping the byte 0x07, and the frames
\* of the tests take 20, 16, 37, 15, 18 and 19 bytes.
C9_EncodedSizes ==
    (JustWrote /\ ret.ok) =>
        /\ Len(Written) = 1 + FieldSizes(ret.frame)
        /\ Len(Written) = VecSize(ret.frame)
        /\ ret.frame = Padding => Written = <<0>>
        /\ ret.frame = Ping => Written = <<7>>

\* the Stream frame of the tests written after another frame
C9_Witness ==
    /\ JustWrote /\ ret.ok /\ ret.frame = StreamVec /\ Len(sent) = 2
    /\ sent[1] = AckVec

(***************************************************************************)
(* Reading bytes off the wire: a cursor over a received buffer, from_bytes *)
(* called while bytes remain, an error ending the packet.  To compare a    *)
(* buffer that holds exactly one frame with the same buffer one byte       *)
(* short, the buffer is cut and read again from its start.                 *)
(***************************************************************************)

\* the most bytes after the first of a received buffer
MaxBody == 5

\* first bytes: every frame type, types of no frame (1, 12, 25, 63), and
\* the first byte of a type written as a varint of 2 and of 4 bytes
TypeBytes ==
    {0, 2, 3, 7, 11, 13, 16, 17, 18, 19, 20, 21, 22, 23, 24}
      \cup {1, 12, 25, 63} \cup {64, 128}

\* later bytes: a zero, a one, and the first byte of a varint of 2, of 4 bytes
BodyBytes == {0, 1, 64, 128}

Bodies == UNION {[1..k -> BodyBytes] : k \in 0..MaxBody}

\* a reset token can follow a NEW_CONNECTION_ID
Tails(t) == IF t = 11 THEN {<<>>, Token(16)} ELSE {<<>>}

InitDecode ==
    /\ \/ b = Bytes_new(<<>>)
       \/ \E t \in TypeBytes : \E body \in Bodies : \E tail \in Tails(t) :
             b = Bytes_new(<<t>> \o body \o tail)
    /\ pc = "wire"
    /\ sent = <<>>
    /\ ret = NoRet
    /\ got = <<>>
    /\ wire = NoWire
    /\ ack = NoAck

\* Frame::from_bytes(&mut b) on the received buffer, and again while bytes
\* remain; on the cut buffer, once
DecodeWire ==
    /\ pc \in {"wire", "cut"}
    /\ NoError(got)
    /\ pc = "cut" => Len(got) = 1
    /\ got # <<>> => cap(b) > 0
    /\ got' = Append(got, Decoded(b))
    /\ b' = [from_bytes(b).c EXCEPT !.v = 0]
    /\ UNCHANGED <<pc, sent, ret, wire, ack>>

\* the buffer was exactly one frame: a cursor over all of it but the last byte
Truncate ==
    /\ pc = "wire"
    /\ Len(got) = 1
    /\ got[1].ok
    /\ got[1].end = Len(b.buf)
    /\ b' = Bytes_new(SubSeq(b.buf, 1, Len(b.buf) - 1))
    /\ pc' = "cut"
    /\ UNCHANGED <<sent, ret, got, wire, ack>>

NextDecode == DecodeWire \/ Truncate

SpecDecode == InitDecode /\ [][NextDecode]_vars

(***************************************************************************)
(* Properties of reading a received buffer                                 *)
(***************************************************************************)

\* the last from_bytes call read the buffer b holds
JustRead == got # <<>> /\ (pc = "cut" => Len(got) = 2)

Latest == got[Len(got)]

\* the cursor as it was before the last call
Before == [Bytes_new(b.buf) EXCEPT !.off = Latest.start]

\* the buffer held one frame and was read again without its last byte
WasCut == pc = "cut" /\ Len(got) = 2

\* the types of Stream frames, and the types of all frames
StreamTypes == {U(16), U(17), U(18), U(19), U(20), U(21), U(22), U(23)}

KnownTypes == {U(0), U(2), U(3), U(7), U(11), U(13), U(24)} \cup StreamTypes

\* a Stream frame read in its implicit-length form
ImplicitLength(r) ==
    r.ty.ok /\ r.ty.v \in StreamTypes /\ BitAnd(as_u8(r.ty.v), 2) = 0

C5_UnknownFrame ==
    JustRead =>
        LET frame_type == get_varint(Before)
        IN  frame_type.ok =>
              IF frame_type.v \in KnownTypes
              THEN Latest.err # "UnknownFrame"
              ELSE /\ ~Latest.ok
                   /\ Latest.err = "UnknownFrame"
                   /\ Latest.frame = NoFrame
                   /\ Latest.end = frame_type.off

\* the type 1, written as a varint of 2 bytes with bytes after it, rejected
C5_Witness ==
    /\ JustRead /\ pc = "wire"
    /\ Len(b.buf) > 2 /\ b.buf[1] = 64 /\ b.buf[2] = 1
    /\ Latest.err = "UnknownFrame"

\* C6: a Stream type with the length flag clear, once the stream id (and the
\* offset, with flag 0x04) are read, takes all the bytes that remain as data,
\* however many, succeeds, and leaves the cursor with nothing remaining.
C6_StreamImplicitLength ==
    JustRead =>
        LET frame_type == get_varint(Before)
            stream_id == get_varint(frame_type)
            header == IF BitAnd(as_u8(frame_type.v), 4) # 0
                      THEN get_varint(stream_id)
                      ELSE stream_id
        IN  (ImplicitLength(Latest) /\ header.ok) =>
              /\ Latest.ok
              /\ Latest.frame.tag = "Stream"
              /\ Latest.frame.data = as_ref(header)
              /\ Latest.end = Len(b.buf)
              /\ cap(b) = 0

\* type 0x14: an offset, no length, and two bytes of data
C6_Witness ==
    /\ JustRead /\ pc = "wire"
    /\ Latest.ok /\ Latest.ty.v = U(20)
    /\ Len(Latest.frame.data) = 2
    /\ Latest.frame.offset = U(1)

\* type 0x10 with nothing after the stream id: no data
C6_WitnessEmpty ==
    /\ JustRead /\ Latest.ok /\ Latest.ty.v = U(16)
    /\ Latest.frame.data = <<>>

(***************************************************************************)
(* Reading an ACK frame, one step of parse_ack_frame at a time: the type   *)
(* and the four leading varints, then the block loop one iteration per     *)
(* step, then the return; the caller reads the frame that follows.  The    *)
(* buffer is an ACK frame put together from its parts, whose block count   *)
(* may or may not be the number of blocks that follow, or 0x0d and any     *)
(* bytes.                                                                  *)
(***************************************************************************)

\* the most (gap, block) pairs put after the first block
MaxRanges == 2

\* the bytes of v as a varint
VarintBytes(v) ==
    LET c == put_varint(Bytes_new(Zeros(8)), v) IN SubSeq(c.buf, 1, c.off)

RECURSIVE RangeBytes(_)
RangeBytes(ranges) ==
    IF ranges = <<>> THEN <<>>
    ELSE VarintBytes(ranges[1][1]) \o VarintBytes(ranges[1][2])
         \o RangeBytes(SubSeq(ranges, 2, Len(ranges)))

\* the ACK frame of the parts w, and the bytes that follow it
AckBytes(w) ==
    <<13>> \o VarintBytes(w.largest_ack) \o VarintBytes(w.ack_delay)
    \o VarintBytes(w.block_count) \o VarintBytes(w.first_block)
    \o RangeBytes(w.ranges)

RangePairs == {<<U(0), U(0)>>, <<U(64), U(1)>>}

RangeLists == UNION {[1..k -> RangePairs] : k \in 0..MaxRanges}

\* nothing, a Ping, a Padding and a Ping, a type of no frame, half a varint,
\* the start of a CONNECTION_CLOSE
Follows == {<<>>, <<7>>, <<0, 7>>, <<1>>, <<64>>, <<2, 0>>}

AckWires ==
    [kind : {"ack"},
     largest_ack : {U(0), AckVec.largest_ack},
     ack_delay : {U(64), AckVec.ack_delay},
     block_count : {U(0), U(1), U(2), U(3), U(64), MaxVarint},
     first_block : {U(0), U(16384)},
     ranges : RangeLists,
     follow : Follows]

InitAck ==
    /\ \/ \E w \in AckWires :
             /\ wire = w
             /\ b = Bytes_new(AckBytes(w) \o w.follow)
       \/ \E body \in Bodies :
             /\ wire = [kind |-> "raw"]
             /\ b = Bytes_new(<<13>> \o body)
    /\ pc = "ack_call"
    /\ sent = <<>>
    /\ ret = NoRet
    /\ got = <<>>
    /\ ack = NoAck

\* what from_bytes returns when parse_ack_frame ends with the cursor c
AckResult(c) ==
    LET r == Built(ACK(ack.largest_ack, ack.ack_delay), c)
    IN  [ok |-> r.ok, err |-> r.err, frame |-> r.frame, start |-> 0,
         end |-> c.off, ty |-> [ok |-> TRUE, v |-> U(13), end |-> 1]]

\* from_bytes reads the type 0x0d and calls parse_ack_frame, which reads
\* largest_ack, ack_delay, block_count and the first block
AckEnter ==
    /\ pc = "ack_call"
    /\ LET header == ack_header(get_varint(b))
       IN  /\ b' = [header.c EXCEPT !.v = 0]
           /\ IF header.c.ok
              THEN /\ ack' = [largest_ack |-> header.largest_ack,
                              ack_delay |-> header.ack_delay,
                              block_count |-> header.block_count, i |-> 0]
                   /\ pc' = "ack_loop"
                   /\ got' = got
              ELSE /\ ack' = ack
                   /\ pc' = "ack_err"
                   /\ got' = Append(got,
                               [Decoded(b) EXCEPT !.end = header.c.off])
    /\ UNCHANGED <<sent, ret, wire>>

\* one iteration of for _i in 0..block_count; a failed read returns the error
AckBlock ==
    /\ pc = "ack_loop"
    /\ u64_gt(ack.block_count, ack.i)
    /\ LET c == ack_block(b)
       IN  /\ b' = [c EXCEPT !.v = 0]
           /\ IF c.ok
              THEN /\ ack' = [ack EXCEPT !.i = @ + 1]
                   /\ pc' = "ack_loop"
                   /\ got' = got
              ELSE /\ ack' = ack
                   /\ pc' = "ack_err"
                   /\ got' = Append(got, AckResult(c))
    /\ UNCHANGED <<sent, ret, wire>>

\* the loop is over: Ok(Frame::ACK { largest_ack, ack_delay })
AckReturn ==
    /\ pc = "ack_loop"
    /\ ~u64_gt(ack.block_count, ack.i)
    /\ got' = Append(got, AckResult(b))
    /\ pc' = "ack_done"
    /\ UNCHANGED <<b, sent, ret, wire, ack>>

\* the caller reads the frame after the ACK frame
ReadFollowing ==
    /\ pc = "ack_done"
    /\ cap(b) > 0
    /\ got' = Append(got, Decoded(b))
    /\ b' = [from_bytes(b).c EXCEPT !.v = 0]
    /\ pc' = "ack_next"
    /\ UNCHANGED <<sent, ret, wire, ack>>

NextAck == AckEnter \/ AckBlock \/ AckReturn \/ ReadFollowing

\* a call, once made, runs on: nothing in it waits
SpecAck == InitAck /\ [][NextAck]_vars /\ WF_vars(NextAck)

\* parse_ack_frame has returned
AckOver == pc \in {"ack_done", "ack_err", "ack_next"}

\* the steps above end as from_bytes does
AckStepsAgree ==
    AckOver =>
        LET r == Decoded(Bytes_new(b.buf))
        IN  /\ got[1].ok = r.ok /\ got[1].err = r.err
            /\ got[1].frame = r.frame /\ got[1].end = r.end

\* the block count is the number of pairs after the first block
WellFormedAck == wire.kind = "ack" /\ wire.block_count = U(Len(wire.ranges))

\* the size of an ACK frame of n pairs, by the sizes of its varints
RECURSIVE Sum(_)
Sum(sizes) == IF sizes = <<>> THEN 0 ELSE sizes[1] + Sum(Tail(sizes))

RangeSizes(ranges) ==
    Sum([k \in 1..Len(ranges) |->
           VarintSize(ranges[k][1]) + VarintSize(ranges[k][2])])

AckSize(w) ==
    1 + VarintSize(w.largest_ack) + VarintSize(w.ack_delay)
    + VarintSize(w.block_count) + VarintSize(w.first_block)
    + RangeSizes(w.ranges)

\* C7: a well-formed ACK frame of n (gap, block) pairs is read as ACK of its
\* largest_ack and ack_delay, the cursor moving past the whole frame, its 2n
\* skipped varints included, so that the frame after it is read from its
\* first byte, as it would be read alone.
C7_AckRangeSkipping ==
    WellFormedAck =>
        /\ pc # "ack_err"
        /\ pc \in {"ack_done", "ack_next"} =>
              /\ got[1].ok
              /\ got[1].frame = ACK(wire.largest_ack, wire.ack_delay)
              /\ got[1].end = AckSize(wire)
              /\ got[1].end = Len(b.buf) - Len(wire.follow)
        /\ pc = "ack_next" =>
              LET alone == Decoded(Bytes_new(wire.follow))
              IN  /\ got[2].start = AckSize(wire)
                  /\ got[2].ok = alone.ok /\ got[2].err = alone.err
                  /\ got[2].frame = alone.frame
                  /\ got[2].end - got[2].start = alone.end

\* largest_ack 2163721632, ack_delay 874656534, two pairs, then a Ping
C7_Witness ==
    /\ WellFormedAck /\ pc = "ack_next"
    /\ wire.largest_ack = AckVec.largest_ack
    /\ wire.ack_delay = AckVec.ack_delay
    /\ wire.ranges = <<<<U(64), U(1)>>, <<U(0), U(0)>>>>
    /\ got[2].ok /\ got[2].frame = Ping

\* C10: parse_ack_frame ends, with ACK or with BufferTooShort, whatever the
\* block count; each iteration of the block loop moves the cursor by at least
\* 2 bytes or ends the call with the error, so that the iterations made are
\* at most half the buffer's length, and the cursor stays within the buffer.
C10_AckTerminates ==
    /\ [](/\ b.off <= Len(b.buf)
          /\ pc \in {"ack_loop", "ack_done", "ack_err"} /\ ack # NoAck =>
                2 * ack.i <= Len(b.buf))
    /\ [][AckBlock => (b'.off >= b.off + 2 \/ pc' = "ack_err")]_vars
    /\ [](AckOver => got # <<>> /\
            \/ got[1].ok /\ got[1].frame = ACK(ack.largest_ack, ack.ack_delay)
            \/ ~got[1].ok /\ got[1].err = "BufferTooShort")
    /\ <>AckOver

\* a block count of 2^62 - 1: the loop ran twice and more, then the call
\* ended with the error
C10_Witness ==
    /\ pc = "ack_err" /\ wire.kind = "ack" /\ wire.block_count = MaxVarint
    /\ ack # NoAck /\ ack.i >= 2
    /\ ~got[1].ok

==========================================================================
